---- MODULE Spec2Model ----
(***************************************************************************)
(* A model of yt.py, the playlist synchroniser: the working directory, the *)
(* index file .yt_index.json and the phases of sync_playlist, over two     *)
(* consecutive runs of the program in the same directory.                  *)
(*                                                                         *)
(* A media or byproduct file is a record                                   *)
(*   [pre, title, id, br, ext, tag, gen]                                   *)
(* whose name is "<pre as NNN> - <title> [<id>].<ext>":                    *)
(*   pre   the NNN prefix, 0 when the name has none;                       *)
(*   title the title part of the name;                                     *)
(*   id    the 11-character video id, NoId when the name holds none;       *)
(*   br    TRUE when the id stands in brackets, FALSE for "<id>.<ext>";    *)
(*   ext   "m4a", or a byproduct: "jpg", "part" (.m4a.part), "temp"        *)
(*         (.temp.m4a);                                                    *)
(*   tag   the track tag ffprobe reads from the file, 0 when none;         *)
(*   gen   which download wrote the content (0: there before the runs).    *)
(* External tools (yt-dlp, tageditor, the SponsorBlock service, the file   *)
(* system) answer nondeterministically; ffprobe is taken to read the tag.  *)
(***************************************************************************)
EXTENDS Integers, Sequences, FiniteSets, TLC

\* ---------------------------------------------------------------- bounds
MaxRemote == 2
MaxFaults == 1
MaxInitFiles == 2

\* ------------------------------------------------------ program constants
\* remote_map.get(song.id, 999): the sort key of a file not in the playlist
OrphanTrack == 999
\* remote_map.get(vid, 1): the track hint of a re-download not in the playlist
RedownDefaultTrack == 1

Ids == {"A", "B"}
Titles == {"t", "u"}
NoId == ""

\* sb_hash values: None, the sentinel "no_segments", or a sha256 digest, written
\* as the text it was computed over (the digest is taken to be collision-free)
NoHash == [alg |-> "None", data |-> <<>>]
NoSegments == [alg |-> "no_segments", data |-> <<>>]
Sha256(text) == [alg |-> "sha256", data |-> text]

\* What the SponsorBlock service holds for a video: a list of segments in the
\* order the service returns them
Seg1 == [segment |-> <<0, 10>>, category |-> "sponsor"]
Seg2 == [segment |-> <<20, 30>>, category |-> "outro"]
Seg3 == [segment |-> <<0, 5>>, category |-> "intro"]
SegLists == {<<>>, <<Seg1>>}

\* ------------------------------------------------------------- sequences
Range(s) == {s[i] : i \in DOMAIN s}

Min(a, b) == IF a < b THEN a ELSE b

\* All sequences over S of length 0..n
RECURSIVE SeqsUpTo(_, _)
SeqsUpTo(S, n) ==
    IF n = 0 THEN {<<>>}
    ELSE LET shorter == SeqsUpTo(S, n - 1)
         IN  shorter \cup {Append(s, x) : s \in {t \in shorter : Len(t) = n - 1}, x \in S}

\* All orders in which a set can be listed
RECURSIVE Perms(_)
Perms(S) ==
    IF S = {} THEN {<<>>}
    ELSE UNION {{<<x>> \o p : p \in Perms(S \ {x})} : x \in S}

\* list.sort(key=...) and sorted(..., key=...): a stable sort of a sequence of
\* <<key, item>> pairs by the integer key
RECURSIVE InsertByKey(_, _)
InsertByKey(s, x) ==
    IF s = <<>> THEN <<x>>
    ELSE IF s[Len(s)][1] <= x[1] THEN Append(s, x)
    ELSE Append(InsertByKey(SubSeq(s, 1, Len(s) - 1), x), s[Len(s)])

RECURSIVE StableSort(_)
StableSort(s) ==
    IF s = <<>> THEN <<>>
    ELSE InsertByKey(StableSort(SubSeq(s, 1, Len(s) - 1)), s[Len(s)])

\* the items of a sequence of <<key, item>> pairs
Items(s) == [i \in DOMAIN s |-> s[i][2]]

\* ------------------------------------------------------------ file names
NameOf(f) == [pre |-> f.pre, title |-> f.title, id |-> f.id, br |-> f.br, ext |-> f.ext]

MkFile(n, tag, gen) ==
    [pre |-> n.pre, title |-> n.title, id |-> n.id, br |-> n.br, ext |-> n.ext,
     tag |-> tag, gen |-> gen]

\* re.search(r"\[([a-zA-Z0-9_-]{11})\]\.[^.]+$") or re.match(r"^([a-zA-Z0-9_-]{11})\.[^.]+$"):
\* the bracketed id at the end of the name, or a name that is the id alone.
\* "<x>.temp.m4a" and "<x>.m4a.part" also end in ".<ext>" after the bracket only
\* when the bracket is followed by one extension, so those yield no id.
extract_video_id(n) ==
    IF n.ext \in {"temp", "part"} THEN NoId
    ELSE IF n.br THEN n.id
    ELSE IF n.pre = 0 /\ n.title = "" THEN n.id
    ELSE NoId

\* re.match(r"^(\d{3}) - (.+)$"): the name without its NNN prefix
extract_base_filename(n) == [n EXCEPT !.pre = 0]

\* f"{index:03d} - {base_filename}"
generate_indexed_filename(index, base) == [base EXCEPT !.pre = index]

\* The order of sorted(directory.glob("*.m4a")): names compared as strings.
\* Digits sort before upper case, upper case before lower case; within a
\* prefix the title decides, then the id ("t [A]" < "t [B]" < "t.m4a").
TitleRank(t) == IF t = "" THEN 0 ELSE IF t = "t" THEN 1 ELSE 2
IdRank(i) == IF i = "A" THEN 1 ELSE IF i = "B" THEN 2 ELSE 3
NameKey(n) ==
    LET group == IF n.pre > 0 THEN 0 ELSE IF ~n.br /\ n.id # NoId THEN 1 ELSE 2
    IN  ((group * 1000 + n.pre) * 10 + TitleRank(n.title)) * 10 + IdRank(n.id)

\* directory.glob("*.m4a"): ".temp.m4a" names match the pattern too
GlobM4a(d) == {f \in d : f.ext \in {"m4a", "temp"}}

\* the files a loop over the glob keeps: if ".temp." in filepath.name: continue
MediaFiles(d) == {f \in GlobM4a(d) : f.ext # "temp"}

\* sorted(directory.glob("*.m4a")) without the ".temp." names, as file records
SortedMedia(d) ==
    LET any == CHOOSE p \in Perms(MediaFiles(d)) : TRUE
    IN  Items(StableSort([i \in DOMAIN any |-> <<NameKey(NameOf(any[i])), any[i]>>]))

FileAt(d, n) == CHOOSE f \in d : NameOf(f) = n
Exists(d, n) == \E f \in d : NameOf(f) = n

\* get_track_from_file: the track tag of the file at path n, 0 when it has none
get_track_from_file(d, n) == IF Exists(d, n) THEN FileAt(d, n).tag ELSE 0

\* -------------------------------------------------------------- cleanup
\* cleanup_byproduct_files: every *.jpg/.jpeg/.png/.webp/.meta/.bak ("jpg"
\* here), *.temp.m4a and *.m4a.part of the directory is unlinked
cleanup_byproduct_files(d) == {f \in d : f.ext \notin {"jpg", "temp", "part"}}

\* The glob pattern f"*[{video_id}].jpg": in a glob, [seq] is a character
\* class, so the pattern matches a name whose last character before the
\* extension is one of the characters of the id; a name that ends in
\* "[<id>]" ends in "]", which no id holds.  The characters of id x are
\* written {x}; a name that is the id alone ends in a character of its id,
\* and so does a name without an id whose title ends in one: the title "u"
\* ends in a character that id A holds.
StemLast(f) == IF f.id = NoId THEN f.title ELSE IF f.br THEN "]" ELSE f.id
IdChars(vid) == IF vid = "A" THEN {"A", "u"} ELSE {vid}
GlobClass(d, vid, exts) == {f \in d : f.ext \in exts /\ StemLast(f) \in IdChars(vid)}

\* cleanup_files_for_video: unlinks what its seven patterns match
cleanup_files_for_video(d, vid) == d \ GlobClass(d, vid, {"jpg", "temp", "part"})

\* ---------------------------------------------------------------- index
\* The index file .yt_index.json, and the temporary file of atomic_json_write:
\* missing, empty (just created), partial (cut short) or a complete document.
\* Of a document the model keeps the songs; album, url and updated are left out.
MissingFile == [kind |-> "missing", songs |-> <<>>]
EmptyFile == [kind |-> "empty", songs |-> <<>>]
PartialFile == [kind |-> "partial", songs |-> <<>>]
DocFile(songs) == [kind |-> "doc", songs |-> songs]

\* Song.to_dict: sb_hash is written only when it is truthy; json.load of the
\* document and load_index's Song(...) give it back as None otherwise
Song(id, track, file, sb_hash) == [id |-> id, track |-> track, file |-> file, sb_hash |-> sb_hash]

\* Index files with a structural defect: a JSON document whose top level is
\* a list, one whose "songs" is not a list, one with a record whose "track" is
\* a string that is no number
ArrayFile == [kind |-> "array", songs |-> <<>>]
BadSongsFile == [kind |-> "badsongs", songs |-> <<>>]
BadTrackFile(songs) == [kind |-> "badtrack", songs |-> songs]

\* load_index: None (here: loaded FALSE, no songs) when the file is missing or
\* is not a JSON document (json.JSONDecodeError is caught); songs = [] when
\* "songs" is not a list; data.get on a list raises AttributeError and
\* int("x") raises ValueError, and the except clause catches neither
load_index(ix) ==
    IF ix.kind = "doc" THEN [loaded |-> TRUE, raised |-> FALSE, songs |-> ix.songs]
    ELSE IF ix.kind = "badsongs" THEN [loaded |-> TRUE, raised |-> FALSE, songs |-> <<>>]
    ELSE IF ix.kind \in {"array", "badtrack"}
    THEN [loaded |-> FALSE, raised |-> TRUE, songs |-> <<>>]
    ELSE [loaded |-> FALSE, raised |-> FALSE, songs |-> <<>>]

\* get_stored_sb_hash: the sb_hash of the first song of the index with this id
get_stored_sb_hash(ix, vid) ==
    LET index == load_index(ix)
        hits == {i \in DOMAIN index.songs : index.songs[i].id = vid}
    IN  IF ~index.loaded \/ hits = {} THEN NoHash
        ELSE index.songs[CHOOSE i \in hits : \A j \in hits : i <= j].sb_hash

\* ---------------------------------------------------------- SponsorBlock
\* sorted(data, key=start) then the {"segment", "category"} projection,
\* json.dumps(sort_keys=True): the text the digest is taken over
Normalize(data) ==
    Items(StableSort([i \in DOMAIN data |-> <<data[i].segment[1], data[i]>>]))

\* get_sb_hash: resp is what requests.get met: "404", "error" (a timeout, any
\* other status, a body that is no JSON) or "ok" with the list of segments
get_sb_hash(resp) ==
    IF resp.kind = "404" THEN NoSegments
    ELSE IF resp.kind = "error" THEN NoSegments
    ELSE IF resp.data = <<>> THEN NoSegments
    ELSE Sha256(Normalize(resp.data))

\* -------------------------------------------------------------- download
\* What one yt-dlp invocation pair of download_single leaves in the directory.
\* out.res: "ok" (yt-dlp, or its archive.org retry, exits 0 and the file is
\* there), "ghost" (exit 0 and no file), "fail" (both exit non-zero).
\* The file is named by -o "%(title)s [%(id)s].%(ext)s"; whether the track hint
\* of --parse-metadata ends up as the file's tag depends on the yt-dlp config
\* (out.tagged); a file of that name already there is kept or rewritten
\* (out.keep).  A thumbnail is left beside a download, a .part by a failure.
DownloadName(vid, title, ext) ==
    [pre |-> 0, title |-> title, id |-> vid, br |-> TRUE, ext |-> ext]

run_yt_dlp(d, vid, track, title, gen, out) ==
    LET n == DownloadName(vid, title, "m4a")
        media == MkFile(n, IF out.tagged THEN track ELSE 0, gen)
        thumb == MkFile(DownloadName(vid, title, "jpg"), 0, gen)
        part == MkFile(DownloadName(vid, title, "part"), 0, gen)
    IN  IF out.res = "ok"
        THEN IF Exists(d, n) /\ out.keep THEN d \cup {thumb}
             ELSE {f \in d : NameOf(f) # n} \cup {media, thumb}
        ELSE IF out.res = "fail" THEN d \cup {part}
        ELSE d

\* download_single: the directory it leaves; it reports success iff yt-dlp did
download_single(d, vid, track, title, gen, out) ==
    cleanup_files_for_video(run_yt_dlp(d, vid, track, title, gen, out), vid)

DownloadSucceeded(out) == out.res \in {"ok", "ghost"}

\* ---------------------------------------------------------------- rename
\* One pass of the planning loop of rename_files_to_indexed_format for file f:
\* the track it is given and the name it should have
\* A planner that leaves every file that already has a numeric prefix alone
RenameTargetKeepingPrefix(d, rmap, f) ==
    LET n == NameOf(f)
        vid == extract_video_id(n)
        track == IF get_track_from_file(d, n) # 0 THEN get_track_from_file(d, n)
                 ELSE IF vid # NoId /\ vid \in DOMAIN rmap THEN rmap[vid]
                 ELSE 0
    IN  [old |-> n,
         new |-> IF n.pre # 0 THEN n ELSE generate_indexed_filename(track, extract_base_filename(n)),
         track |-> track]

RenameTarget(d, rmap, f) ==
    LET n == NameOf(f)
        vid == extract_video_id(n)
        track == IF get_track_from_file(d, n) # 0 THEN get_track_from_file(d, n)
                 ELSE IF vid # NoId /\ vid \in DOMAIN rmap THEN rmap[vid]
                 ELSE 0
        bare == n.pre = 0 /\ n.title = "" /\ ~n.br /\ vid # NoId
        base == IF bare THEN [n EXCEPT !.br = TRUE] ELSE extract_base_filename(n)
    IN  [old |-> n, new |-> generate_indexed_filename(track, base), track |-> track]

\* the renames list after renames.sort(key=lambda x: x[2])
PlannedRenames(d, rmap) ==
    LET files == SortedMedia(d)
        all == [i \in DOMAIN files |-> RenameTarget(d, rmap, files[i])]
        Wanted(r) == r.track # 0 /\ r.new # r.old /\ ~Exists(d, r.new)
        renames == SelectSeq(all, Wanted)
    IN  Items(StableSort([i \in DOMAIN renames |-> <<renames[i].track, renames[i]>>]))

\* old_path.rename(new_path): it replaces a file already at new_path
RenameFile(d, old, new) ==
    LET f == FileAt(d, old)
    IN  {g \in d : NameOf(g) \notin {old, new}} \cup {MkFile(new, f.tag, f.gen)}

\* the execution loop: the renames whose index is in failing raise OSError
RECURSIVE ExecRenames(_, _, _, _)
ExecRenames(d, renames, i, failing) ==
    IF i > Len(renames) THEN [dir |-> d, renamed |-> 0]
    ELSE IF i \in failing \/ ~Exists(d, renames[i].old)
    THEN ExecRenames(d, renames, i + 1, failing)
    ELSE LET rest == ExecRenames(RenameFile(d, renames[i].old, renames[i].new),
                                 renames, i + 1, failing)
         IN  [dir |-> rest.dir, renamed |-> rest.renamed + 1]

rename_files_to_indexed_format(d, rmap, failing) ==
    ExecRenames(d, PlannedRenames(d, rmap), 1, failing)

\* ------------------------------------------------------------ save_index
\* the songs of the document save_index builds, after songs.sort(key=track)
BuildSongs(d, ix, hashes, rmap) ==
    LET files == SortedMedia(d)
        HasId(f) == extract_video_id(NameOf(f)) # NoId
        kept == SelectSeq(files, HasId)
        SongOf(f) ==
            LET vid == extract_video_id(NameOf(f))
                tag == get_track_from_file(d, NameOf(f))
                track == IF tag = 0 /\ vid \in DOMAIN rmap THEN rmap[vid] ELSE tag
                sb_hash == IF hashes[vid] # NoHash THEN hashes[vid]
                           ELSE get_stored_sb_hash(ix, vid)
            IN  Song(vid, track, NameOf(f), sb_hash)
        songs == [i \in DOMAIN kept |-> SongOf(kept[i])]
    IN  Items(StableSort([i \in DOMAIN songs |-> <<songs[i].track, songs[i]>>]))

\* ------------------------------------------------------------ environment
\* What yt-dlp --flat-playlist -j lists: one entry per line, each with an id
\* and a playlist_index.  A repeated video is numbered by its line, or carries
\* the number of its first line.
Numbered(ids) == [i \in DOMAIN ids |-> [id |-> ids[i], index |-> i]]
FirstNumbered(ids) ==
    [i \in DOMAIN ids |->
        [id |-> ids[i], index |-> CHOOSE j \in 1..i : ids[j] = ids[i] /\ \A k \in 1..(j - 1) : ids[k] # ids[i]]]

\* The playlists yt-dlp lists: at least one entry (fetch_remote_playlist raises
\* on an empty output), a repeated video under its own or its first position
Playlists == SeqsUpTo(Ids, MaxRemote) \ {<<>>}
RemoteListings == {Numbered(s) : s \in Playlists} \cup {FirstNumbered(s) : s \in Playlists}

\* Directories a run can start in: files of earlier runs, a second copy of a
\* video under another title, a file left by the user
InitFiles ==
    { MkFile([pre |-> 1, title |-> "t", id |-> "A", br |-> TRUE, ext |-> "m4a"], 1, 0),
      MkFile([pre |-> 2, title |-> "u", id |-> "A", br |-> TRUE, ext |-> "m4a"], 2, 0),
      MkFile([pre |-> 2, title |-> "t", id |-> "B", br |-> TRUE, ext |-> "m4a"], 2, 0),
      MkFile([pre |-> 0, title |-> "t", id |-> "B", br |-> TRUE, ext |-> "jpg"], 0, 0) }
InitDirs == {d \in SUBSET InitFiles : Cardinality(d) <= MaxInitFiles}

VARIABLES
    run,              \* 1 or 2: which of the two consecutive runs
    pc,               \* where sync_playlist stands
    faults,           \* failing external calls still allowed in this behaviour
    clean,            \* no external call has failed in this run
    remote,           \* the playlist as yt-dlp lists it during this run
    sbData,           \* the SponsorBlock segments of each video during this run
    dir,              \* the working directory: a set of file records
    indexFile,        \* .yt_index.json
    tmpFile,          \* the temporary file of atomic_json_write
    remote_songs, remote_map, local_songs, to_download, newly_downloaded,
    futures,          \* the tasks of the running pool and their results
    done_q,           \* completed re-downloads in as_completed order
    is_first_run, sb_hashes, sb_changes,
    renamed,          \* what rename_files_to_indexed_format returned
    newdoc,           \* the document save_index hands to atomic_json_write
    saved,            \* what save_index returned
    dir0, index0,     \* history: directory and index file at the start of the run
    sbErr,            \* history: ids whose SponsorBlock request failed in this run
    dlFailed,         \* history: ids of which a download unit failed in this run
    rdFailed,         \* history: ids of which a re-download unit failed in this run
    prev              \* history: the previous run

vars == <<run, pc, faults, clean, remote, sbData, dir, indexFile, tmpFile,
          remote_songs, remote_map, local_songs, to_download, newly_downloaded,
          futures, done_q, is_first_run, sb_hashes, sb_changes, renamed, newdoc,
          saved, dir0, index0, sbErr, dlFailed, rdFailed, prev>>

env == <<remote, sbData>>
fsys == <<dir, indexFile, tmpFile>>
locals == <<remote_songs, remote_map, local_songs, to_download, newly_downloaded,
            futures, done_q, is_first_run, sb_hashes, sb_changes, renamed, newdoc, saved>>
history == <<dir0, index0, sbErr, dlFailed, rdFailed, prev>>

\* %(title)s: the title yt-dlp finds for the video
Title(vid) == "t"

NoPrev == [run |-> 0]

\* the locals of sync_playlist before its first statement
FreshLocals ==
    /\ remote_songs = <<>>
    /\ remote_map = <<>>
    /\ local_songs = <<>>
    /\ to_download = <<>>
    /\ newly_downloaded = {}
    /\ futures = <<>>
    /\ done_q = <<>>
    /\ is_first_run = FALSE
    /\ sb_hashes = [i \in Ids |-> NoHash]
    /\ sb_changes = <<>>
    /\ renamed = 0
    /\ newdoc = MissingFile
    /\ saved = FALSE

\* the same, of the next state: the process starts, or is gone
LocalsReset ==
    /\ remote_songs' = <<>>
    /\ remote_map' = <<>>
    /\ local_songs' = <<>>
    /\ to_download' = <<>>
    /\ newly_downloaded' = {}
    /\ futures' = <<>>
    /\ done_q' = <<>>
    /\ is_first_run' = FALSE
    /\ sb_hashes' = [i \in Ids |-> NoHash]
    /\ sb_changes' = <<>>
    /\ renamed' = 0
    /\ newdoc' = MissingFile
    /\ saved' = FALSE

\* An index a previous run left for directory d: one song per file that
\* carries an id, every fingerprint h
IndexFor(d, h) == DocFile(BuildSongs(d, MissingFile, [i \in Ids |-> h], <<>>))

\* The index files a run can find in directory d: none, the one written for
\* d, or one written when the directory held more files than it does now
InitIndexes(d) == {MissingFile} \cup {IndexFor(x, Sha256(<<Seg1>>)) : x \in {d, InitFiles}}

\* What the service holds: a segment for video A, none for the others
Served == [i \in Ids |-> IF i = "A" THEN <<Seg1>> ELSE <<>>]

InitWith(dirs, listings, wide) ==
    /\ run = 1
    /\ pc = "start"
    /\ faults = MaxFaults
    /\ clean = TRUE
    /\ remote \in listings
    /\ sbData = Served
    /\ dir \in dirs
    /\ indexFile \in IF wide THEN InitIndexes(dir) ELSE {MissingFile, IndexFor(dir, Sha256(<<Seg1>>))}
    /\ tmpFile = MissingFile
    /\ FreshLocals
    /\ dir0 = dir
    /\ index0 = indexFile
    /\ sbErr = {}
    /\ dlFailed = {}
    /\ rdFailed = {}
    /\ prev = NoPrev

Init == InitWith(InitDirs, RemoteListings, TRUE)

\* One external call fails: it uses up one of the failures the behaviour may hold
Fault ==
    /\ faults > 0
    /\ faults' = faults - 1
    /\ clean' = FALSE

NoFault == UNCHANGED <<faults, clean>>

AllDone == \A i \in DOMAIN futures : futures[i].st # "pending"

\* ---------------------------------------------------------------- phases
\* Phase 0: cleanup_byproduct_files(directory)
InitialCleanup ==
    /\ pc = "start"
    /\ dir' = cleanup_byproduct_files(dir)
    /\ pc' = "fetch"
    /\ NoFault
    /\ UNCHANGED <<run, env, indexFile, tmpFile, locals, history>>

\* remote_map = {s.id: s.index for s in remote_songs}: the last entry of an id wins
RemoteMap(songs) ==
    [v \in {songs[i].id : i \in DOMAIN songs} |->
        songs[CHOOSE i \in DOMAIN songs :
                 songs[i].id = v /\ \A j \in DOMAIN songs : songs[j].id = v => j <= i].index]

\* Phase 1: fetch_remote_playlist returns the listing
FetchRemote ==
    /\ pc = "fetch"
    /\ remote_songs' = remote
    /\ remote_map' = RemoteMap(remote)
    /\ pc' = "scan"
    /\ NoFault
    /\ UNCHANGED <<run, env, fsys, local_songs, to_download, newly_downloaded, futures,
                   done_q, is_first_run, sb_hashes, sb_changes, renamed, newdoc, saved, history>>

\* Phase 1: yt-dlp exits non-zero or prints nothing: RuntimeError, main exits 1
FetchFails ==
    /\ pc = "fetch"
    /\ Fault
    /\ pc' = "aborted"
    /\ UNCHANGED <<run, env, fsys, locals, history>>

\* scan_local_files: the LocalSong list, as the paths of the files with an id,
\* in the order the glob yields them
Scanned(d) == {f \in MediaFiles(d) : extract_video_id(NameOf(f)) # NoId}
ScanOrders(d) == {[i \in DOMAIN p |-> NameOf(p[i])] : p \in Perms(Scanned(d))}

\* A difference that correlates by position as well as by id
ToDownloadByPosition(songs, local) ==
    LET Missing(s) == ~\E i \in DOMAIN local : local[i].id = s.id /\ local[i].pre = s.index
    IN  SelectSeq(songs, Missing)

\* to_download = [s for s in remote_songs if s.id not in local_ids]
ToDownload(songs, local) ==
    LET local_ids == {local[i].id : i \in DOMAIN local}
        Missing(s) == s.id \notin local_ids
    IN  SelectSeq(songs, Missing)

\* Phases 2 to 4 up to the submits: scan, to_download, one future per entry.
\* The order of this scan is not read: only the ids of its files are.
ScanAndSubmit ==
    /\ pc = "scan"
    /\ LET local == CHOOSE o \in ScanOrders(dir) : TRUE
           todo == ToDownload(remote_songs, local)
       IN  /\ local_songs' = local
           /\ to_download' = todo
           /\ futures' = [i \in DOMAIN todo |->
                            [id |-> todo[i].id, index |-> todo[i].index, st |-> "pending"]]
           /\ pc' = IF todo = <<>> THEN "reindex" ELSE "download"
    /\ NoFault
    /\ UNCHANGED <<run, env, fsys, remote_songs, remote_map, newly_downloaded, done_q,
                   is_first_run, sb_hashes, sb_changes, renamed, newdoc, saved, history>>

\* Phase 4: one worker runs download_single and its result is collected
DownloadWorker(i, out) ==
    /\ pc = "download"
    /\ i \in DOMAIN futures
    /\ futures[i].st = "pending"
    /\ dir' = download_single(dir, futures[i].id, futures[i].index, Title(futures[i].id), run, out)
    /\ futures' = [futures EXCEPT ![i].st = IF DownloadSucceeded(out) THEN "ok" ELSE "failed"]
    /\ dlFailed' = IF DownloadSucceeded(out) THEN dlFailed ELSE dlFailed \cup {futures[i].id}
    /\ UNCHANGED <<run, pc, env, indexFile, tmpFile, remote_songs, remote_map, local_songs,
                   to_download, newly_downloaded, done_q, is_first_run, sb_hashes,
                   sb_changes, renamed, newdoc, saved, dir0, index0, sbErr, rdFailed, prev>>

DownloadOk ==
    \E i \in DOMAIN futures, tagged \in BOOLEAN :
        /\ DownloadWorker(i, [res |-> "ok", tagged |-> tagged, keep |-> FALSE])
        /\ NoFault

DownloadGhost ==
    \E i \in DOMAIN futures :
        /\ DownloadWorker(i, [res |-> "ghost", tagged |-> FALSE, keep |-> FALSE])
        /\ Fault

\* A unit that timed out and is left pending, without a result
DownloadLeftPending ==
    \E i \in DOMAIN futures :
        /\ pc = "download"
        /\ futures[i].st = "pending"
        /\ Fault
        /\ UNCHANGED <<run, pc, env, fsys, locals, history>>

DownloadFails ==
    \E i \in DOMAIN futures :
        /\ DownloadWorker(i, [res |-> "fail", tagged |-> FALSE, keep |-> FALSE])
        /\ Fault

\* A phase that ends with the first result instead of draining as_completed
DownloadEndAtFirstResult ==
    /\ pc = "download"
    /\ \E i \in DOMAIN futures : futures[i].st # "pending"
    /\ newly_downloaded' = {futures[i].id : i \in {j \in DOMAIN futures : futures[j].st = "ok"}}
    /\ dir' = cleanup_byproduct_files(dir)
    /\ futures' = <<>>
    /\ pc' = "reindex"
    /\ NoFault
    /\ UNCHANGED <<run, env, indexFile, tmpFile, remote_songs, remote_map, local_songs,
                   to_download, done_q, is_first_run, sb_hashes, sb_changes, renamed,
                   newdoc, saved, history>>

\* Phase 4, after the pool: newly_downloaded, cleanup_byproduct_files
DownloadEnd ==
    /\ pc = "download"
    /\ AllDone
    /\ newly_downloaded' = {futures[i].id : i \in {j \in DOMAIN futures : futures[j].st = "ok"}}
    /\ dir' = cleanup_byproduct_files(dir)
    /\ futures' = <<>>
    /\ pc' = "reindex"
    /\ NoFault
    /\ UNCHANGED <<run, env, indexFile, tmpFile, remote_songs, remote_map, local_songs,
                   to_download, done_q, is_first_run, sb_hashes, sb_changes, renamed,
                   newdoc, saved, history>>

\* Phase 5: reindex_list.sort(key=target) over a fresh scan, then
\* update_tasks = (path, idx + 1) by enumerate
UpdateTasks(local, rmap) ==
    LET Target(n) == IF n.id \in DOMAIN rmap THEN rmap[n.id] ELSE OrphanTrack
        reindex_list == Items(StableSort([i \in DOMAIN local |-> <<Target(local[i]), local[i]>>]))
    IN  [i \in DOMAIN reindex_list |-> [path |-> reindex_list[i], track |-> i, st |-> "pending"]]

Reindex ==
    /\ pc = "reindex"
    /\ \E local \in ScanOrders(dir) :
        /\ local_songs' = local
        /\ futures' = UpdateTasks(local, remote_map)
    /\ pc' = "meta"
    /\ NoFault
    /\ UNCHANGED <<run, env, fsys, remote_songs, remote_map, to_download, newly_downloaded,
                   done_q, is_first_run, sb_hashes, sb_changes, renamed, newdoc, saved, history>>

\* update_track_metadata: tageditor sets the track tag of the file at the path
SetTag(d, n, track) == {IF NameOf(f) = n THEN [f EXCEPT !.tag = track] ELSE f : f \in d}

MetaOk ==
    \E i \in DOMAIN futures :
        /\ pc = "meta"
        /\ futures[i].st = "pending"
        /\ dir' = SetTag(dir, futures[i].path, futures[i].track)
        /\ futures' = [futures EXCEPT ![i].st = "ok"]
        /\ NoFault
        /\ UNCHANGED <<run, pc, env, indexFile, tmpFile, remote_songs, remote_map, local_songs,
                       to_download, newly_downloaded, done_q, is_first_run, sb_hashes,
                       sb_changes, renamed, newdoc, saved, history>>

\* tageditor fails or times out: the result is dropped (_ = future.result())
MetaFails ==
    \E i \in DOMAIN futures :
        /\ pc = "meta"
        /\ futures[i].st = "pending"
        /\ futures' = [futures EXCEPT ![i].st = "failed"]
        /\ Fault
        /\ UNCHANGED <<run, pc, env, fsys, remote_songs, remote_map, local_songs,
                       to_download, newly_downloaded, done_q, is_first_run, sb_hashes,
                       sb_changes, renamed, newdoc, saved, history>>

\* is_first_run = existing_index is None or len(existing_index.songs) == 0
IsFirstRun(ix) == ~load_index(ix).loaded \/ load_index(ix).songs = <<>>

\* End of phase 5 and start of phase 6: cleanup, scan, load_index, one
\* fetch_sb_hash_worker per scanned file
StartSponsorBlock ==
    /\ pc = "meta"
    /\ AllDone
    /\ ~load_index(indexFile).raised
    /\ dir' = cleanup_byproduct_files(dir)
    /\ \E local \in ScanOrders(dir') :
        /\ local_songs' = local
        /\ futures' = [i \in DOMAIN local |->
                          [id |-> local[i].id, new_hash |-> NoHash, st |-> "pending"]]
    /\ is_first_run' = IsFirstRun(indexFile)
    /\ sb_hashes' = [i \in Ids |-> NoHash]
    /\ sb_changes' = <<>>
    /\ pc' = "sb"
    /\ NoFault
    /\ UNCHANGED <<run, env, indexFile, tmpFile, remote_songs, remote_map, to_download,
                   newly_downloaded, done_q, renamed, newdoc, saved, history>>

\* the body of the as_completed loop of phase 6 for one result
\* Start of phase 6 when load_index raises: the exception leaves
\* sync_playlist and main, which catches KeyboardInterrupt and RuntimeError only
LoadIndexRaises ==
    /\ pc = "meta"
    /\ AllDone
    /\ load_index(indexFile).raised
    /\ dir' = cleanup_byproduct_files(dir)
    /\ pc' = "failed"
    /\ NoFault
    /\ UNCHANGED <<run, env, indexFile, tmpFile, locals, history>>

\* A decision that does not look at newly_downloaded
SbChangesOfDownloaded(changes, vid, new_hash, first, newly, ix) ==
    IF first THEN changes
    ELSE IF get_stored_sb_hash(ix, vid) # NoHash /\ get_stored_sb_hash(ix, vid) # new_hash
    THEN Append(changes, vid)
    ELSE changes

SbChanges(changes, vid, new_hash, first, newly, ix) ==
    IF first \/ vid \in newly THEN changes
    ELSE IF get_stored_sb_hash(ix, vid) # NoHash /\ get_stored_sb_hash(ix, vid) # new_hash
    THEN Append(changes, vid)
    ELSE changes

SbWorker(i, resp) ==
    /\ pc = "sb"
    /\ i \in DOMAIN futures
    /\ futures[i].st = "pending"
    /\ LET vid == futures[i].id
           new_hash == get_sb_hash(resp)
       IN  /\ sb_hashes' = [sb_hashes EXCEPT ![vid] = new_hash]
           /\ sb_changes' = SbChanges(sb_changes, vid, new_hash, is_first_run,
                                      newly_downloaded, indexFile)
    /\ futures' = [futures EXCEPT ![i].st = "ok", ![i].new_hash = get_sb_hash(resp)]
    /\ UNCHANGED <<run, pc, env, fsys, remote_songs, remote_map, local_songs, to_download,
                   newly_downloaded, done_q, is_first_run, renamed, newdoc, saved,
                   dir0, index0, dlFailed, rdFailed, prev>>

\* what the service answers for a video: 404 when it holds no segment
Answer(vid) ==
    IF sbData[vid] = <<>> THEN [kind |-> "404", data |-> <<>>]
    ELSE [kind |-> "ok", data |-> sbData[vid]]

SbAnswered ==
    \E i \in DOMAIN futures :
        /\ SbWorker(i, Answer(futures[i].id))
        /\ NoFault
        /\ UNCHANGED sbErr

\* a timeout, a status that is neither 2xx nor 404, or a body that is no JSON
SbTransientError ==
    \E i \in DOMAIN futures :
        /\ SbWorker(i, [kind |-> "error", data |-> <<>>])
        /\ Fault
        /\ sbErr' = sbErr \cup {futures[i].id}

\* old_file: the path of the first LocalSong with the id, None (NoName) if none
NoName == [pre |-> 0, title |-> "", id |-> NoId, br |-> FALSE, ext |-> ""]
OldFile(local, vid) ==
    LET hits == {i \in DOMAIN local : local[i].id = vid}
    IN  IF hits = {} THEN NoName ELSE local[CHOOSE i \in hits : \A j \in hits : i <= j]

\* the futures of the re-download pool, one per entry of sb_changes
RedownTasks(changes, rmap, local) ==
    [i \in DOMAIN changes |->
        [id |-> changes[i],
         index |-> IF changes[i] \in DOMAIN rmap THEN rmap[changes[i]] ELSE RedownDefaultTrack,
         old_file |-> OldFile(local, changes[i]),
         st |-> "pending"]]

\* After the phase 6 pool: nothing to re-download
SponsorBlockUnchanged ==
    /\ pc = "sb"
    /\ AllDone
    /\ is_first_run \/ sb_changes = <<>>
    /\ futures' = <<>>
    /\ pc' = "rename"
    /\ NoFault
    /\ UNCHANGED <<run, env, fsys, remote_songs, remote_map, local_songs, to_download,
                   newly_downloaded, done_q, is_first_run, sb_hashes, sb_changes, renamed,
                   newdoc, saved, history>>

\* After the phase 6 pool: elif sb_changes, the re-downloads are submitted
SubmitRedownloads ==
    /\ pc = "sb"
    /\ AllDone
    /\ ~is_first_run /\ sb_changes # <<>>
    /\ futures' = RedownTasks(sb_changes, remote_map, local_songs)
    /\ done_q' = <<>>
    /\ pc' = "redown"
    /\ NoFault
    /\ UNCHANGED <<run, env, fsys, remote_songs, remote_map, local_songs, to_download,
                   newly_downloaded, is_first_run, sb_hashes, sb_changes, renamed,
                   newdoc, saved, history>>

\* one worker of the re-download pool runs download_single
RedownWorker(i, out) ==
    /\ pc = "redown"
    /\ i \in DOMAIN futures
    /\ futures[i].st = "pending"
    /\ dir' = download_single(dir, futures[i].id, futures[i].index, Title(futures[i].id), run, out)
    /\ futures' = [futures EXCEPT ![i].st = IF DownloadSucceeded(out) THEN "ok" ELSE "failed"]
    /\ done_q' = Append(done_q, i)
    /\ rdFailed' = IF DownloadSucceeded(out) THEN rdFailed ELSE rdFailed \cup {futures[i].id}
    /\ UNCHANGED <<run, pc, env, indexFile, tmpFile, remote_songs, remote_map, local_songs,
                   to_download, newly_downloaded, is_first_run, sb_hashes, sb_changes,
                   renamed, newdoc, saved, dir0, index0, sbErr, dlFailed, prev>>

RedownOk ==
    \E i \in DOMAIN futures, tagged \in BOOLEAN, keep \in BOOLEAN :
        /\ RedownWorker(i, [res |-> "ok", tagged |-> tagged, keep |-> keep])
        /\ NoFault

RedownFails ==
    \E i \in DOMAIN futures, res \in {"ghost", "fail"} :
        /\ RedownWorker(i, [res |-> res, tagged |-> FALSE, keep |-> FALSE])
        /\ Fault

\* new_files = [f for f in directory.glob(f"*[{vid}].m4a") if f != old_file and
\* ".temp." not in f.name]: the pattern's [..] is a character class
NewFiles(d, vid, old_file) == {f \in GlobClass(d, vid, {"m4a"}) : NameOf(f) # old_file}

\* the body of the as_completed loop of the re-download pool for one result
AfterRedownload(d, task) ==
    IF task.st = "ok" /\ task.old_file # NoName /\ Exists(d, task.old_file)
    THEN IF NewFiles(d, task.id, task.old_file) # {}
         THEN {f \in d : NameOf(f) # task.old_file}
         ELSE d
    ELSE IF task.st # "ok" THEN cleanup_files_for_video(d, task.id)
    ELSE d

RedownCollect ==
    /\ pc = "redown"
    /\ done_q # <<>>
    /\ dir' = AfterRedownload(dir, futures[Head(done_q)])
    /\ futures' = [futures EXCEPT ![Head(done_q)].st = "handled"]
    /\ done_q' = Tail(done_q)
    /\ NoFault
    /\ UNCHANGED <<run, pc, env, indexFile, tmpFile, remote_songs, remote_map, local_songs,
                   to_download, newly_downloaded, is_first_run, sb_hashes, sb_changes,
                   renamed, newdoc, saved, history>>

\* After the re-download pool: cleanup_byproduct_files
RedownEnd ==
    /\ pc = "redown"
    /\ \A i \in DOMAIN futures : futures[i].st = "handled"
    /\ dir' = cleanup_byproduct_files(dir)
    /\ futures' = <<>>
    /\ pc' = "rename"
    /\ NoFault
    /\ UNCHANGED <<run, env, indexFile, tmpFile, remote_songs, remote_map, local_songs,
                   to_download, newly_downloaded, done_q, is_first_run, sb_hashes,
                   sb_changes, renamed, newdoc, saved, history>>

\* Phase 7 and the cleanup of phase 8: rename_files_to_indexed_format, then
\* cleanup_byproduct_files.  Of the planned renames, those in failing raise
\* OSError (logged, skipped).
RenamePhase(failing) ==
    /\ pc = "rename"
    /\ failing \subseteq DOMAIN PlannedRenames(dir, remote_map)
    /\ LET r == rename_files_to_indexed_format(dir, remote_map, failing)
       IN  /\ dir' = cleanup_byproduct_files(r.dir)
           /\ renamed' = r.renamed
    /\ pc' = "save"
    /\ UNCHANGED <<run, env, indexFile, tmpFile, remote_songs, remote_map, local_songs,
                   to_download, newly_downloaded, futures, done_q, is_first_run, sb_hashes,
                   sb_changes, newdoc, saved, history>>

RenameFiles ==
    /\ RenamePhase({})
    /\ NoFault

RenameWithOSError ==
    \E i \in DOMAIN PlannedRenames(dir, remote_map) :
        /\ RenamePhase({i})
        /\ Fault

\* A save that writes the document to the index path as soon as it is built
SaveIndexDirect ==
    /\ pc = "save"
    /\ newdoc' = DocFile(BuildSongs(dir, indexFile, sb_hashes, remote_map))
    /\ indexFile' = newdoc'
    /\ tmpFile' = EmptyFile
    /\ pc' = "write"
    /\ NoFault
    /\ UNCHANGED <<run, env, dir, remote_songs, remote_map, local_songs,
                   to_download, newly_downloaded, futures, done_q, is_first_run, sb_hashes,
                   sb_changes, renamed, saved, history>>

\* save_index builds the document; atomic_json_write: tempfile.mkstemp
SaveIndex ==
    /\ pc = "save"
    /\ newdoc' = DocFile(BuildSongs(dir, indexFile, sb_hashes, remote_map))
    /\ tmpFile' = EmptyFile
    /\ pc' = "write"
    /\ NoFault
    /\ UNCHANGED <<run, env, dir, indexFile, remote_songs, remote_map, local_songs,
                   to_download, newly_downloaded, futures, done_q, is_first_run, sb_hashes,
                   sb_changes, renamed, saved, history>>

\* A writer without the temporary file: json.dump straight into the index path
WriteInPlace ==
    /\ pc = "write"
    /\ indexFile' = PartialFile
    /\ pc' = "writing"
    /\ NoFault
    /\ UNCHANGED <<run, env, dir, tmpFile, locals, history>>

\* atomic_json_write: json.dump has written a part of the document
WriteStarts ==
    /\ pc = "write"
    /\ tmpFile' = PartialFile
    /\ pc' = "writing"
    /\ NoFault
    /\ UNCHANGED <<run, env, dir, indexFile, locals, history>>

\* atomic_json_write: json.dump returns and the with block closes the file
WriteEnds ==
    /\ pc = "writing"
    /\ tmpFile' = newdoc
    /\ pc' = "move"
    /\ NoFault
    /\ UNCHANGED <<run, env, dir, indexFile, locals, history>>

\* The path shutil.move(tmp_path, filepath) takes: a rename of the temporary
\* file over the index file
MoveOver(ix, tmp) == [index |-> tmp, tmp |-> MissingFile]

\* atomic_json_write: shutil.move, return True; sync_playlist logs and returns
MoveTmp ==
    /\ pc = "move"
    /\ indexFile' = MoveOver(indexFile, tmpFile).index
    /\ tmpFile' = MoveOver(indexFile, tmpFile).tmp
    /\ saved' = TRUE
    /\ pc' = "done"
    /\ NoFault
    /\ UNCHANGED <<run, env, dir, remote_songs, remote_map, local_songs, to_download,
                   newly_downloaded, futures, done_q, is_first_run, sb_hashes, sb_changes,
                   renamed, newdoc, history>>

\* atomic_json_write: OSError in the write or in the move: the temporary file
\* is unlinked, False is returned; sync_playlist logs "Failed to save index"
\* and goes on to "Sync complete!"
WriteOSError ==
    /\ pc \in {"writing", "move"}
    /\ tmpFile' = MissingFile
    /\ saved' = FALSE
    /\ pc' = "done"
    /\ Fault
    /\ UNCHANGED <<run, env, dir, indexFile, remote_songs, remote_map, local_songs,
                   to_download, newly_downloaded, futures, done_q, is_first_run, sb_hashes,
                   sb_changes, renamed, newdoc, history>>

Running == pc \notin {"done", "aborted", "crashed", "failed"}

\* The process is killed (or the machine stops) where it stands: its memory
\* is gone, the files stay as they are
Crash ==
    /\ Running
    /\ Fault
    /\ pc' = "crashed"
    /\ LocalsReset
    /\ UNCHANGED <<run, env, fsys, history>>

\* sync_playlist
RunStep ==
    \/ InitialCleanup
    \/ FetchRemote
    \/ FetchFails
    \/ ScanAndSubmit
    \/ DownloadOk
    \/ DownloadGhost
    \/ DownloadFails
    \/ DownloadEnd
    \/ Reindex
    \/ MetaOk
    \/ MetaFails
    \/ StartSponsorBlock
    \/ SbAnswered
    \/ SbTransientError
    \/ SponsorBlockUnchanged
    \/ SubmitRedownloads
    \/ RedownOk
    \/ RedownFails
    \/ RedownCollect
    \/ RedownEnd
    \/ RenameFiles
    \/ RenameWithOSError
    \/ SaveIndex
    \/ WriteStarts
    \/ WriteEnds
    \/ MoveTmp
    \/ WriteOSError
    \/ Crash

Next == RunStep

Spec == Init /\ [][Next]_vars

\* ------------------------------------------------------------- two runs
\* The program is started again in the same directory after a run has ended
\* (completed, aborted or killed).  Between the runs nobody touches the
\* directory, and the service holds the same segments.
StartAgain(listing) ==
    /\ ~Running
    /\ run = 1
    /\ run' = 2
    /\ pc' = "start"
    /\ clean' = TRUE
    /\ remote' = listing
    /\ LocalsReset
    /\ prev' = [run |-> run, remote |-> remote, clean |-> clean,
                completed |-> (pc = "done" /\ saved), dir0 |-> dir0, index0 |-> index0,
                failed |-> dlFailed, refetch_failed |-> rdFailed,
                to_download |-> to_download, sb_changes |-> sb_changes, renamed |-> renamed]
    /\ dir0' = dir
    /\ index0' = indexFile
    /\ sbErr' = {}
    /\ dlFailed' = {}
    /\ rdFailed' = {}
    /\ faults' = MaxFaults
    /\ UNCHANGED <<sbData, fsys>>

\* nothing has changed upstream
RunAgain == StartAgain(remote)

Next2 == RunStep \/ RunAgain

\* the directory is empty or holds the file of video A an earlier run left
Init2 ==
    InitWith({d \in InitDirs : Cardinality(d) < MaxInitFiles},
             {Numbered(s) : s \in Playlists}, FALSE)

Spec2 == Init2 /\ [][Next2]_vars

\* The end-to-end scenario: playlist [A@1, B@2] and an empty directory without
\* an index; the second run finds the playlist listed as [B@1, A@2, A@2]
Init8 ==
    /\ InitWith({{}}, {Numbered(<<"A", "B">>)}, FALSE)
    /\ indexFile = MissingFile

Relisted == StartAgain(FirstNumbered(<<"B", "A", "A">>))

Next8 == RunStep \/ Relisted

Spec8 == Init8 /\ [][Next8]_vars

\* One run over an index file that may have a structural defect
DefectiveIndexes(d) ==
    {PartialFile, ArrayFile, BadSongsFile, BadTrackFile(IndexFor(d, Sha256(<<Seg1>>)).songs)}

Init14 ==
    /\ run = 1
    /\ pc = "start"
    /\ faults = MaxFaults
    /\ clean = TRUE
    /\ remote \in RemoteListings
    /\ sbData = Served
    /\ dir \in InitDirs
    /\ indexFile \in InitIndexes(dir) \cup DefectiveIndexes(dir)
    /\ tmpFile = MissingFile
    /\ FreshLocals
    /\ dir0 = dir
    /\ index0 = indexFile
    /\ sbErr = {}
    /\ dlFailed = {}
    /\ rdFailed = {}
    /\ prev = NoPrev

Next14 == RunStep \/ LoadIndexRaises

Spec14 == Init14 /\ [][Next14]_vars

\* One run against a service that holds up to two segments for video A, in
\* any order, among them two that start at the same offset
SegOrders == UNION {Perms(S) : S \in {T \in SUBSET {Seg1, Seg2, Seg3} : Cardinality(T) <= 2}}

Init15 ==
    /\ run = 1
    /\ pc = "start"
    /\ faults = MaxFaults
    /\ clean = TRUE
    /\ remote \in {Numbered(<<"A">>), Numbered(<<"A", "B">>)}
    /\ sbData \in {[i \in Ids |-> IF i = "A" THEN segs ELSE <<>>] : segs \in SegOrders}
    /\ dir \in {d \in InitDirs : Cardinality(d) < MaxInitFiles}
    /\ indexFile \in {MissingFile, IndexFor(dir, Sha256(<<Seg1>>))}
    /\ tmpFile = MissingFile
    /\ FreshLocals
    /\ dir0 = dir
    /\ index0 = indexFile
    /\ sbErr = {}
    /\ dlFailed = {}
    /\ rdFailed = {}
    /\ prev = NoPrev

Spec15 == Init15 /\ [][Next]_vars

\* One run in a directory that may hold a media file of the user, "u.m4a",
\* beside the files of earlier runs, with an index whose fingerprints are the
\* served ones or older ones
UserFile == MkFile([pre |-> 0, title |-> "u", id |-> NoId, br |-> FALSE, ext |-> "m4a"], 0, 0)

Init24 ==
    /\ run = 1
    /\ pc = "start"
    /\ faults = MaxFaults
    /\ clean = TRUE
    /\ remote \in RemoteListings
    /\ sbData = Served
    /\ dir \in {d \cup u : d \in {x \in InitDirs : Cardinality(x) < MaxInitFiles},
                            u \in {{}, {UserFile}}}
    /\ indexFile \in {MissingFile, IndexFor(dir, Sha256(<<Seg1>>)), IndexFor(dir, Sha256(<<Seg2>>))}
    /\ tmpFile = MissingFile
    /\ FreshLocals
    /\ dir0 = dir
    /\ index0 = indexFile
    /\ sbErr = {}
    /\ dlFailed = {}
    /\ rdFailed = {}
    /\ prev = NoPrev

Spec24 == Init24 /\ [][Next]_vars

\* One run in which every external call returns or times out, the pools run
\* every unit they were given and the main thread goes on.  A step that
\* fails is never owed; a step that succeeds is not put off for ever.
\* rename_files_to_indexed_format and save_index are calls of the main
\* thread that always return: it does not stay before them for ever.
RenameReturns == pc = "rename" /\ pc' = "save"
SaveIndexReturns == pc = "save" /\ pc' = "write"

Fairness23 ==
    /\ WF_vars(InitialCleanup)
    /\ WF_vars(FetchRemote)
    /\ WF_vars(ScanAndSubmit)
    /\ WF_vars(DownloadOk)
    /\ WF_vars(DownloadEnd)
    /\ WF_vars(Reindex)
    /\ WF_vars(MetaOk)
    /\ WF_vars(StartSponsorBlock)
    /\ WF_vars(LoadIndexRaises)
    /\ WF_vars(SbAnswered)
    /\ WF_vars(SponsorBlockUnchanged)
    /\ WF_vars(SubmitRedownloads)
    /\ WF_vars(RedownOk)
    /\ WF_vars(RedownCollect)
    /\ WF_vars(RedownEnd)
    /\ WF_pc(RenameReturns)
    /\ WF_pc(SaveIndexReturns)
    /\ WF_vars(WriteStarts)
    /\ WF_vars(WriteEnds)
    /\ WF_vars(MoveTmp)

Spec23 == Init14 /\ [][Next14]_vars /\ Fairness23

\* ------------------------------------------------------------ the claims
\* sync_playlist has computed to_download and has not been killed
AfterScan ==
    pc \in {"download", "reindex", "meta", "sb", "redown", "rename", "save", "write",
            "writing", "move", "done"}

\* save_index has built its document
AfterBuild == pc \in {"write", "writing", "move", "done"}

\* the run ended with "Sync complete!" and a saved index
Completed == pc = "done" /\ saved

\* the media files of directory d that carry id vid in their name
FilesOf(d, vid) == {f \in d : f.ext = "m4a" /\ f.id = vid}

\* C1: after a run that completed and saved the index, a second run with the
\* same playlist and the same SponsorBlock answers, in which no external call
\* fails, downloads nothing, renames nothing and re-fetches nothing.  Stated
\* for a first run in which no external call failed either.
C1_SecondRunIdle ==
    (run = 2 /\ pc = "done" /\ clean /\ prev.completed /\ prev.clean
        /\ remote = prev.remote)
    => (to_download = <<>> /\ renamed = 0 /\ sb_changes = <<>>)

\* C2: the index path holds the complete document the run found there, or,
\* once atomic_json_write has returned True, the complete new one; never a
\* partial one, also when the process is killed or the write raises OSError.
C2_IndexOldOrNew ==
    \/ indexFile = index0
    \/ Completed /\ indexFile = newdoc /\ newdoc.kind = "doc"

\* C2 witness: killed after the temporary file was written, before the rename
C2_KilledBeforeRename ==
    /\ pc = "crashed"
    /\ tmpFile.kind = "doc"
    /\ index0.kind = "doc"
    /\ tmpFile # index0
    /\ indexFile = index0

\* C3: an item whose SponsorBlock request met a transient error, and that has
\* a fingerprint in the loaded index, has the same fingerprint in the index
\* saved at the end of the run.
C3_FingerprintRetained ==
    Completed =>
        \A vid \in sbErr :
            get_stored_sb_hash(index0, vid) # NoHash
            => get_stored_sb_hash(indexFile, vid) = get_stored_sb_hash(index0, vid)

\* C4: an item whose SponsorBlock request met a transient error in this run
\* is not put on sb_changes in this run.
C4_NoRefetchAfterError == \A vid \in sbErr : vid \notin Range(sb_changes)

\* C5: to_download holds exactly the entries of the remote listing whose id no
\* media file of the directory carries, whatever the titles and positions.
C5_DownloadsAreMissingIds ==
    AfterScan =>
        LET Absent(s) == FilesOf(dir0, s.id) = {}
        IN  to_download = SelectSeq(remote, Absent)

\* C5 witness: a listed video whose file carries another title and another
\* position than the listing is not downloaded, while another video is
C5_RetitledMovedNotDownloaded ==
    /\ pc = "download"
    /\ \E i \in DOMAIN remote :
        /\ \E f \in FilesOf(dir0, remote[i].id) :
              f.title # Title(remote[i].id) /\ f.pre # remote[i].index
        /\ \A j \in DOMAIN to_download : to_download[j].id # remote[i].id

\* the SponsorBlock workers that have returned
SbDone == {i \in DOMAIN futures : futures[i].st = "ok"}

\* in phase 6 a video is on sb_changes iff a file of it was in the directory
\* before the run, the loaded index holds a fingerprint for it and a
\* fingerprint returned for it differs from that one
FlaggedIffChanged ==
    pc = "sb" =>
        /\ \A vid \in Ids :
              vid \in Range(sb_changes)
              <=> \E i \in SbDone :
                     /\ futures[i].id = vid
                     /\ FilesOf(dir0, vid) # {}
                     /\ get_stored_sb_hash(index0, vid) # NoHash
                     /\ futures[i].new_hash # get_stored_sb_hash(index0, vid)
        /\ \A i \in SbDone :
              \E j \in SbDone :
                 futures[j].id = futures[i].id /\ sb_hashes[futures[i].id] = futures[j].new_hash

\* the record save_index builds for a video downloaded in this run, or one
\* without a fingerprint in the loaded index, holds the returned fingerprint
NewFingerprintSaved ==
    AfterBuild =>
        \A i \in DOMAIN newdoc.songs :
            LET vid == newdoc.songs[i].id
            IN  (vid \in newly_downloaded \/ get_stored_sb_hash(index0, vid) = NoHash)
                => (newdoc.songs[i].sb_hash = sb_hashes[vid] /\ sb_hashes[vid] # NoHash)

\* C6: a video enters sb_changes iff it was in the directory before this run,
\* the loaded index holds a fingerprint for it and the fingerprint
\* get_sb_hash returned differs from that one; a video downloaded in this run
\* or without a stored fingerprint is never flagged and the returned
\* fingerprint is what the run stores for it.  ("Returned" is what
\* get_sb_hash gave back, also when the request behind it failed.)
C6_ChangeDecision == FlaggedIffChanged /\ NewFingerprintSaved

\* C6 witness: all three rows at once: a pre-existing item flagged, and a
\* freshly downloaded item with an older fingerprint in the index not flagged
C6_FlaggedAndNotFlagged ==
    /\ pc = "sb"
    /\ AllDone
    /\ \E v \in Ids, w \in Ids :
        /\ v \in Range(sb_changes)
        /\ w \notin Range(sb_changes)
        /\ w \in newly_downloaded
        /\ get_stored_sb_hash(index0, w) # NoHash
        /\ sb_hashes[w] # get_stored_sb_hash(index0, w)

\* the position of id vid among the first occurrences of the listing
FirstIndex(listing, vid) == CHOOSE i \in DOMAIN listing : listing[i].id = vid /\ \A j \in 1..(i - 1) : listing[j].id # vid
DedupPosition(listing, vid) ==
    Cardinality({v \in Ids : \E i \in DOMAIN listing :
                    listing[i].id = v /\ FirstIndex(listing, v) <= FirstIndex(listing, vid)})

\* C7: no id is submitted to the download pool twice, and the track given to
\* the file of a listed video is its position in the listing once repeats
\* after the first are dropped.
C7_DedupAndResquash ==
    /\ pc = "download" =>
          \A i \in DOMAIN futures, j \in DOMAIN futures : futures[i].id = futures[j].id => i = j
    /\ pc = "meta" =>
          \A i \in DOMAIN futures :
             futures[i].path.id \in DOMAIN remote_map
             => futures[i].track = DedupPosition(remote_songs, futures[i].path.id)

\* the track tag of the one media file of vid, 0 when there is not exactly one
TagOf(d, vid) ==
    IF Cardinality(FilesOf(d, vid)) = 1 THEN (CHOOSE f \in FilesOf(d, vid) : TRUE).tag ELSE 0
PrefixOf(d, vid) ==
    IF Cardinality(FilesOf(d, vid)) = 1 THEN (CHOOSE f \in FilesOf(d, vid) : TRUE).pre ELSE 0

\* C8: from [A@1, B@2] and an empty directory the first run downloads both,
\* gives them positions 1 and 2 and saves two records with a fingerprint each;
\* the second run, on [B@1, A@2, A@2], maps A to one position, gives B
\* position 1 and A position 2, downloads nothing and renames two files
\* (no external call failing in either run).
C8_Scenario ==
    /\ (run = 1 /\ Completed /\ clean) =>
          /\ [i \in DOMAIN to_download |-> to_download[i].id] = <<"A", "B">>
          /\ TagOf(dir, "A") = 1 /\ PrefixOf(dir, "A") = 1
          /\ TagOf(dir, "B") = 2 /\ PrefixOf(dir, "B") = 2
          /\ Len(indexFile.songs) = 2
          /\ \A i \in DOMAIN indexFile.songs : indexFile.songs[i].sb_hash # NoHash
          /\ {indexFile.songs[i].id : i \in DOMAIN indexFile.songs} = {"A", "B"}
    /\ (run = 2 /\ Completed /\ clean /\ prev.completed /\ prev.clean) =>
          /\ DOMAIN remote_map = {"A", "B"}
          /\ remote_map["B"] = 1 /\ remote_map["A"] = 2
          /\ TagOf(dir, "B") = 1 /\ PrefixOf(dir, "B") = 1
          /\ TagOf(dir, "A") = 2 /\ PrefixOf(dir, "A") = 2
          /\ to_download = <<>>
          /\ renamed = 2

\* C8 witness: the second run of the scenario has completed
C8_SecondRunCompleted ==
    /\ run = 2 /\ Completed /\ clean /\ prev.completed /\ prev.clean
    /\ Len(remote_songs) = 3
    /\ renamed = 2

\* C9: in every document save_index writes each id has at most one record,
\* and at the write at most one media file of the directory carries it.
C9_IndexUnique ==
    AfterBuild =>
        /\ \A i \in DOMAIN newdoc.songs, j \in DOMAIN newdoc.songs :
              newdoc.songs[i].id = newdoc.songs[j].id => i = j
        /\ \A vid \in Ids : Cardinality(FilesOf(dir, vid)) <= 1

\* the file of the smallest name among those of S
SmallestName(S) == CHOOSE f \in S : \A g \in S : NameKey(NameOf(f)) <= NameKey(NameOf(g))

\* C10: when media files share an id at scan time, the scan keeps the one of
\* the smallest path and removes the others.
C10_ScanKeepsSmallest ==
    (pc \in {"download", "reindex"} /\ \A i \in DOMAIN futures : futures[i].st = "pending") =>
        \A vid \in Ids :
            FilesOf(dir0, vid) # {} =>
                /\ FilesOf(dir, vid) = {SmallestName(FilesOf(dir0, vid))}
                /\ {n \in Range(local_songs) : n.id = vid} = {NameOf(SmallestName(FilesOf(dir0, vid)))}

\* the ids of the remote listing of this run
RemoteIds == {remote[i].id : i \in DOMAIN remote}

\* C11: after a completed run no media file whose id is not in the remote
\* listing is left in the directory, and the saved index has no record of one
\* (stated for the runs in which no external call failed).
C11_OrphansRemoved ==
    (Completed /\ clean) =>
        /\ \A f \in dir : (f.ext = "m4a" /\ f.id # NoId) => f.id \in RemoteIds
        /\ \A i \in DOMAIN indexFile.songs : indexFile.songs[i].id \in RemoteIds

\* C12: when fetch_remote_playlist raises (yt-dlp failed or printed nothing)
\* the run is aborted with the directory, the index file and the temporary
\* file as the run found them.
C12_AbortLeavesFilesAlone ==
    pc = "aborted" => (dir = dir0 /\ indexFile = index0 /\ tmpFile = MissingFile)

\* C13: the index file changes in one step of a run only, the move that ends
\* atomic_json_write, taken once, with no pool running, after the rename
\* phase; a run that is killed or aborted leaves the index file as it found it.
C13_SingleCommitPoint ==
    /\ [](pc \in {"crashed", "aborted"} => indexFile = index0)
    /\ [][indexFile' # indexFile =>
            /\ pc = "move" /\ pc' = "done"
            /\ ~saved /\ saved'
            /\ futures = <<>> /\ done_q = <<>>
            /\ indexFile = index0]_vars

\* C13 witness: the second run is killed after it changed the directory and
\* before save_index; the index is the one the first run committed
C13_KilledBeforeCommit ==
    /\ run = 2 /\ prev.completed
    /\ pc = "crashed"
    /\ dir # dir0
    /\ tmpFile = MissingFile
    /\ indexFile = index0
    /\ index0.kind = "doc"

\* C14: whatever the index file holds, load_index does not raise: no run ends
\* with an exception that left load_index (stated for the runs in which no
\* external call failed).
C14_LoadNeverRaises == clean => pc # "failed"

\* C15: the fingerprint get_sb_hash returned for a non-empty segment list is
\* the one it returns for every other order of the same segments, also when
\* two of them start at the same offset.
C15_OrderIndependent ==
    pc = "sb" =>
        \A i \in SbDone :
            (futures[i].id \notin sbErr /\ sbData[futures[i].id] # <<>>) =>
                \A p \in Perms(Range(sbData[futures[i].id])) :
                    get_sb_hash([kind |-> "ok", data |-> p]) = futures[i].new_hash

\* the ids of the download list
DownloadIds == {to_download[i].id : i \in DOMAIN to_download}

\* C16: a video of which a download unit failed in a run has no media file
\* and no record in the index when that run has completed, and is on
\* to_download in the next run over the same playlist.
C16_FailedDownloadRetried ==
    /\ Completed =>
          \A vid \in dlFailed :
              /\ FilesOf(dir, vid) = {}
              /\ \A i \in DOMAIN indexFile.songs : indexFile.songs[i].id # vid
    /\ (run = 2 /\ AfterScan /\ prev.completed) =>
          \A vid \in prev.failed : vid \in DownloadIds

\* C17: a run whose index save failed does not end as a completed sync:
\* sync_playlist reaches "Sync complete!" (and main exit status 0) only with
\* the index saved.
C17_FailedSaveFailsRun == pc = "done" => saved

\* C18: a download unit reports success only with a media file of its video
\* in the directory, and only the ids of such units enter newly_downloaded.
C18_SuccessHasFile ==
    /\ pc = "download" =>
          \A i \in DOMAIN futures : futures[i].st = "ok" => FilesOf(dir, futures[i].id) # {}
    /\ pc = "reindex" => \A vid \in newly_downloaded : FilesOf(dir, vid) # {}

\* the workers of the running pool that have not returned
Active == {i \in DOMAIN futures : futures[i].st = "pending"}

\* C19: in the download, SponsorBlock and re-download pools no two workers
\* that have not returned hold the same id, and a step of a download or
\* re-download worker adds and removes only files that carry its own id.
C19_WorkersDisjoint ==
    /\ [](pc \in {"download", "sb", "redown"} =>
            \A i \in Active, j \in Active : futures[i].id = futures[j].id => i = j)
    /\ [][(pc \in {"download", "redown"} /\ pc' = pc /\ Active' # Active) =>
            \A f \in (dir' \ dir) \cup (dir \ dir') :
                \E i \in Active \ Active' : f.id = futures[i].id]_vars

\* the media files of directory d, and what they hold whatever their prefix
M4aFiles(d) == {f \in d : f.ext = "m4a"}
Contents(d) == {[f EXCEPT !.pre = 0] : f \in M4aFiles(d)}

\* C20: the rename phase replaces and removes no media file: the directory
\* holds as many media files after it as before, with the same contents.
C20_RenameKeepsFiles ==
    [][pc = "rename" =>
          /\ Cardinality(M4aFiles(dir')) = Cardinality(M4aFiles(dir))
          /\ Contents(dir') = Contents(dir)]_vars

\* the phases of a run as the positions of sync_playlist: the fetch of the
\* missing items, the rescan, the tag writes, the annotation check, the
\* re-fetch, the rename, the save
PhasePcs == {"download", "reindex", "meta", "sb", "redown", "rename", "save"}

\* fetch -> rescan -> tag -> rename -> annotation-check -> conditional re-fetch
\* -> rescan -> rename -> save, as the pairs of phases that may follow one
\* another (the re-fetch may be left out)
PhaseSuccession ==
    {<<"download", "reindex">>, <<"reindex", "meta">>, <<"meta", "rename">>,
     <<"rename", "sb">>, <<"sb", "redown">>, <<"redown", "reindex">>,
     <<"sb", "reindex">>, <<"reindex", "rename">>, <<"rename", "save">>}

\* C21: the phases of a run follow one another in the order fetch, rescan,
\* tag, rename, annotation-check, conditional re-fetch, rescan, rename, save:
\* the annotation check starts from a rename, and a re-fetch is followed by a
\* rescan and a rename before the save.
C21_PhaseOrder ==
    [][(pc' # pc /\ pc \in PhasePcs /\ pc' \in PhasePcs) =>
          <<pc, pc'>> \in PhaseSuccession]_vars

\* C22: in the download phase there is one unit per submitted item, a unit
\* yields its result once and keeps it, a failed unit does not end the phase,
\* and the phase ends only when every submitted item has its result, the
\* successful ones becoming newly_downloaded.
C22_OneResultPerItem ==
    /\ [](pc = "download" =>
            /\ DOMAIN futures = DOMAIN to_download
            /\ \A i \in DOMAIN futures : futures[i].id = to_download[i].id)
    /\ [][pc = "download" =>
            /\ pc' \in {"download", "reindex", "crashed"}
            /\ pc' = "download" =>
                 /\ DOMAIN futures' = DOMAIN futures
                 /\ \A i \in DOMAIN futures :
                       futures[i].st # "pending" => futures'[i] = futures[i]
            /\ pc' = "reindex" =>
                 /\ \A i \in DOMAIN futures : futures[i].st \in {"ok", "failed"}
                 /\ newly_downloaded' =
                       {futures[i].id : i \in {j \in DOMAIN futures : futures[j].st = "ok"}}]_vars

\* both items were submitted, one failed and the other one was still fetched
C22_FailedAndFetched ==
    /\ pc = "reindex"
    /\ Len(to_download) = 2
    /\ dlFailed # {}
    /\ newly_downloaded # {}
    /\ newly_downloaded \cap dlFailed = {}

\* the run has ended: after the save, by the abort of a failed listing, by an
\* exception that leaves main, or because the process was killed
Ended == pc \in {"done", "aborted", "failed", "crashed"}
PoolPcs == {"download", "meta", "sb", "redown"}
Pending == {i \in DOMAIN futures : futures[i].st = "pending"}

\* C23: when every external call returns or times out, every run ends, after
\* the save or by an abort; a pool phase is left only when none of its units
\* is pending, and a unit that is taken up, timed out or not, has a result
\* afterwards and is never pending again.
C23_Terminates ==
    /\ <>[]Ended
    /\ <>(Ended /\ (pc = "done" => tmpFile = MissingFile))
    /\ [][(pc \in PoolPcs /\ pc' \notin {pc, "crashed"}) => Pending = {}]_vars
    /\ [][(pc \in PoolPcs /\ pc' = pc) => Pending' \subseteq Pending]_vars
    /\ [][(pc \in {"download", "meta", "sb"} /\ pc' = pc) =>
              Cardinality(Pending') = Cardinality(Pending) - 1]_vars

\* a run that ended after the save although a download had timed out
C23_EndedAfterFailure == pc = "done" /\ saved /\ dlFailed # {}

\* C24: in the re-fetch phase a media file that carries an id leaves the
\* directory only if another media file with that id is in it afterwards, and
\* when the phase is over every id that was flagged as changed still has a
\* media file, whether its re-fetch succeeded, failed or produced no file.
C24_OldFileKept ==
    /\ []((pc = "rename" /\ ~is_first_run) =>
            \A i \in DOMAIN sb_changes : FilesOf(dir, sb_changes[i]) # {})
    /\ [][pc = "redown" =>
            \A f \in M4aFiles(dir) \ M4aFiles(dir') :
                f.id # NoId => \E g \in FilesOf(dir', f.id) : g # f]_vars

\* C25: when the re-fetch of a flagged item failed in a run that saved the
\* index, the saved record of the item holds the fingerprint the index held
\* before the run; and in the next run, with the same answers of the service
\* and no failing call, the item is flagged as changed again.
C25_FingerprintNotAdvanced ==
    /\ Completed =>
          \A vid \in rdFailed : \A k \in DOMAIN indexFile.songs :
              indexFile.songs[k].id = vid =>
                  indexFile.songs[k].sb_hash = get_stored_sb_hash(index0, vid)
    /\ (run = 2 /\ prev.completed /\ clean /\ pc = "sb" /\ AllDone) =>
          \A vid \in prev.refetch_failed :
              FilesOf(dir, vid) # {} => \E i \in DOMAIN sb_changes : sb_changes[i] = vid

TypeOK ==
    /\ run \in {1, 2}
    /\ faults \in 0..MaxFaults
    /\ \A f \in dir, g \in dir : NameOf(f) = NameOf(g) => f = g
    /\ indexFile.kind \in {"missing", "doc", "partial", "array", "badsongs", "badtrack"}

====
